---- MODULE Spec2Model ----
(***************************************************************************)
(* data_cube_utilities/dc_display_map.py: the zoom estimator               *)
(* (_degree_to_zoom_level), the palette generator                          *)
(* (generate_n_visually_distinct_colors) and the two map composers         *)
(* (display_map, display_grouped_pandas_rows_as_pins) over a heap of       *)
(* folium map objects.                                                     *)
(*                                                                         *)
(* Numbers.  A coordinate is an integer count of 1/UnitsPerDegree degree.  *)
(* A margin is a rational <<num, den>> with den > 0.  Arithmetic is exact: *)
(* the float rounding of 360/degree and of the two math.log calls is not   *)
(* modelled.                                                               *)
(* A call's result is a record: raised is "" when the call returned and    *)
(* the exception's type otherwise; ret is <<value>> for a returned scalar  *)
(* (<<>> when the call raised), or the returned list itself.               *)
(***************************************************************************)
EXTENDS Integers, Sequences, FiniteSets

VARIABLES zoomCall, colorCall, prevColorCall, maps, mapCall

vars == <<zoomCall, colorCall, prevColorCall, maps, mapCall>>

\* Bounds of the model.
UnitsPerDegree == 4096
MaxSmallN == 3
MaxMaps == 2
MaxCalls == 2
MaxLabels == 3
PaletteSlack == 2

NoCall == [op |-> "none"]

Abs(x) == IF x < 0 THEN -x ELSE x
Min(a, b) == IF a <= b THEN a ELSE b
Max(a, b) == IF a >= b THEN a ELSE b

----------------------------------------------------------------------------
\* _degree_to_zoom_level

\* The largest k >= 0 with b * 2^k <= a, for a >= b > 0: floor(log2(a/b)).
RECURSIVE FloorLog2(_, _)
FloorLog2(a, b) == IF 2 * b > a THEN 0 ELSE 1 + FloorLog2(a, 2 * b)

\* Variant: math.floor in place of int(), which rounds a negative logarithm
\* down.
IntLog2Floor(n, d) ==
    IF n >= d THEN FloorLog2(n, d)
    ELSE LET k == FloorLog2(d, n)
         IN  IF n * 2^k = d THEN -k ELSE -(k + 1)
\* int(math.log(n/d) / math.log(2)) for n, d > 0: int() truncates toward zero,
\* so a negative logarithm is rounded up.
IntLog2(n, d) == IF n >= d THEN FloorLog2(n, d) ELSE -FloorLog2(d, n)

\* degree = abs(l1 - l2) * (1 + margin), as the numerator of a fraction over
\* UnitsPerDegree * margin[2].
DegreeNum(l1, l2, margin) == Abs(l1 - l2) * (margin[2] + margin[1])
\* 360, over the same denominator.
FullCircleNum(margin) == 360 * UnitsPerDegree * margin[2]

\* Variants of the estimator: l1 - l2 without abs; the result clamped to
\* 0..18; the floor of the logarithm.
NoAbsDegreeToZoomLevel(l1, l2, margin) ==
    LET degree == (l1 - l2) * (margin[2] + margin[1])
    IN  IF degree # 0
        THEN IF degree < 0
             THEN [raised |-> "ValueError", ret |-> <<>>]
             ELSE [raised |-> "", ret |-> <<IntLog2(FullCircleNum(margin), degree)>>]
        ELSE [raised |-> "", ret |-> <<18>>]
ClampedDegreeToZoomLevel(l1, l2, margin) ==
    LET degree == DegreeNum(l1, l2, margin)
    IN  IF degree # 0
        THEN IF degree < 0
             THEN [raised |-> "ValueError", ret |-> <<>>]
             ELSE [raised |-> "",
                   ret |-> <<Max(0, Min(18, IntLog2(FullCircleNum(margin), degree)))>>]
        ELSE [raised |-> "", ret |-> <<18>>]
FloorDegreeToZoomLevel(l1, l2, margin) ==
    LET degree == DegreeNum(l1, l2, margin)
    IN  IF degree # 0
        THEN IF degree < 0
             THEN [raised |-> "ValueError", ret |-> <<>>]
             ELSE [raised |-> "", ret |-> <<IntLog2Floor(FullCircleNum(margin), degree)>>]
        ELSE [raised |-> "", ret |-> <<18>>]
\* math.log raises ValueError (math domain error) on a negative argument.
_degree_to_zoom_level(l1, l2, margin) ==
    LET degree == DegreeNum(l1, l2, margin)
    IN  IF degree # 0
        THEN IF degree < 0
             THEN [raised |-> "ValueError", ret |-> <<>>]
             ELSE [raised |-> "", ret |-> <<IntLog2(FullCircleNum(margin), degree)>>]
        ELSE [raised |-> "", ret |-> <<18>>]

\* The bounds and margins the estimator is called with.
ZoomBounds ==
    {-180 * UnitsPerDegree, 0, 1, (45 * UnitsPerDegree) \div 32,
     90 * UnitsPerDegree, 180 * UnitsPerDegree, 360 * UnitsPerDegree,
     500 * UnitsPerDegree}
ZoomMargins == <<<<0, 1>>, <<1, 2>>, <<1, 1>>, <<-1, 2>>, <<-1, 1>>, <<-2, 1>>>>

DegreeToZoomLevel(l1, l2, margin) ==
    /\ zoomCall' = [op |-> "_degree_to_zoom_level", l1 |-> l1, l2 |-> l2,
                    margin |-> margin,
                    result |-> _degree_to_zoom_level(l1, l2, margin)]
    /\ UNCHANGED <<colorCall, prevColorCall, maps, mapCall>>


\* k = int(log2(n/d)) for n, d > 0, stated without the recursion: k has the
\* sign of the logarithm and is the integer next to it on the side of zero.
IsTruncLog2(k, n, d) ==
    IF n >= d
    THEN k >= 0 /\ d * 2^k <= n /\ n < d * 2^(k + 1)
    ELSE k <= 0 /\ n * 2^(-k) <= d /\ d < n * 2^(1 - k)
\* k = floor(log2(n/d)) for n, d > 0: 2^k <= n/d < 2^(k+1).
IsFloorLog2(k, n, d) ==
    IF k >= 0
    THEN d * 2^k <= n /\ n < d * 2^(k + 1)
    ELSE d <= n * 2^(-k) /\ n * 2^(-k) < 2 * d

ZoomCalled == zoomCall.op = "_degree_to_zoom_level"
ZoomSpanNum == DegreeNum(zoomCall.l1, zoomCall.l2, zoomCall.margin)
ZoomFullNum == FullCircleNum(zoomCall.margin)
ZoomReturned == ZoomCalled /\ zoomCall.result.raised = ""

\* C1 (as stated): the estimator returns 18 when span = |high - low| * (1 +
\* margin) is 0 and otherwise returns floor(log2(360 / span)).
C1_FloorOfLog2 ==
    ZoomCalled =>
        /\ zoomCall.result.raised = ""
        /\ Len(zoomCall.result.ret) = 1
        /\ IF ZoomSpanNum = 0
           THEN zoomCall.result.ret[1] = 18
           ELSE IsFloorLog2(zoomCall.result.ret[1], ZoomFullNum, ZoomSpanNum)

\* C1 (amended): the estimator returns 18 when span is 0; for a positive span
\* it returns log2(360 / span) truncated toward zero, which is the floor
\* whenever span <= 360 and is k whenever span = 360 / 2^k (so (0, 360) gives
\* 0, (0, 180) gives 1 and (0, 1.40625) gives 8); for a negative span it
\* returns nothing and raises ValueError.
C1_TruncOfLog2 ==
    ZoomCalled =>
        LET r == zoomCall.result
            n == ZoomFullNum
            d == ZoomSpanNum
        IN  /\ d = 0 => r = [raised |-> "", ret |-> <<18>>]
            /\ zoomCall.l1 = zoomCall.l2 => r = [raised |-> "", ret |-> <<18>>]
            /\ d > 0 => /\ r.raised = ""
                        /\ Len(r.ret) = 1
                        /\ IsTruncLog2(r.ret[1], n, d)
                        /\ d <= n => IsFloorLog2(r.ret[1], n, d)
                        /\ \A k \in 0 .. 24 :
                              (n % 2^k = 0 /\ d = n \div 2^k) => r.ret[1] = k
            /\ d < 0 => r = [raised |-> "ValueError", ret |-> <<>>]
            /\ (zoomCall.margin = <<0, 1>> /\ zoomCall.l1 = 0) =>
                  /\ zoomCall.l2 = 360 * UnitsPerDegree => r.ret = <<0>>
                  /\ zoomCall.l2 = 180 * UnitsPerDegree => r.ret = <<1>>
                  /\ 32 * zoomCall.l2 = 45 * UnitsPerDegree => r.ret = <<8>>

\* A span between 360 and 720 degrees: the logarithm is in (-1, 0) and the
\* estimator returned 0.
C1_Witness ==
    /\ ZoomReturned
    /\ ZoomSpanNum > ZoomFullNum
    /\ ZoomSpanNum < 2 * ZoomFullNum
    /\ zoomCall.result.ret = <<0>>

\* C7 (as stated): the estimator never raises: for every finite low, high and
\* margin, negative margins included, it returns an integer.
C7_NeverRaises ==
    ZoomCalled =>
        /\ zoomCall.result.raised = ""
        /\ Len(zoomCall.result.ret) = 1
        /\ zoomCall.result.ret[1] \in Int

\* C8 (as stated): every zoom level the estimator returns lies in 0..18.
C8_ZoomInRange == ZoomReturned => zoomCall.result.ret[1] \in 0 .. 18

\* C8 (amended): every zoom level the estimator returns is an integer; it is
\* 18 for a zero span, and for a positive span it lies in 0..18 exactly when
\* 360 / 2^19 < span < 720: a smaller span gives a level above 18, a span of
\* 720 or more a negative level.
C8_ZoomRangeBySpan ==
    ZoomReturned =>
        LET z == zoomCall.result.ret[1]
            n == ZoomFullNum
            d == ZoomSpanNum
        IN  /\ z \in Int
            /\ d >= 0
            /\ d = 0 => z = 18
            /\ d > 0 => /\ z \in 0 .. 18 <=> ((n \div 2^19) < d /\ d < 2 * n)
                        /\ (n \div 2^19) >= d => z > 18
                        /\ d >= 2 * n => z < 0

\* A span of 1/UnitsPerDegree degree: the estimator returned more than 18.
C8_Witness ==
    /\ ZoomReturned
    /\ ZoomSpanNum > 0
    /\ (ZoomFullNum \div 2^19) >= ZoomSpanNum
    /\ zoomCall.result.ret[1] > 18

----------------------------------------------------------------------------
\* generate_n_visually_distinct_colors

colors == <<
    "#000000", "#FFFF00", "#1CE6FF", "#FF34FF", "#FF4A46", "#008941", "#006FA6", "#A30059",
    "#FFDBE5", "#7A4900", "#0000A6", "#63FFAC", "#B79762", "#004D43", "#8FB0FF", "#997D87",
    "#5A0007", "#809693", "#FEFFE6", "#1B4400", "#4FC601", "#3B5DFF", "#4A3B53", "#FF2F80",
    "#61615A", "#BA0900", "#6B7900", "#00C2A0", "#FFAA92", "#FF90C9", "#B903AA", "#D16100",
    "#DDEFFF", "#000035", "#7B4F4B", "#A1C299", "#300018", "#0AA6D8", "#013349", "#00846F",
    "#372101", "#FFB500", "#C2FFED", "#A079BF", "#CC0744", "#C0B9B2", "#C2FF99", "#001E09",
    "#00489C", "#6F0062", "#0CBD66", "#EEC3FF", "#456D75", "#B77B68", "#7A87A1", "#788D66",
    "#885578", "#FAD09F", "#FF8A9A", "#D157A0", "#BEC459", "#456648", "#0086ED", "#886F4C",
    "#34362D", "#B4A8BD", "#00A6AA", "#452C2C", "#636375", "#A3C8C9", "#FF913F", "#938A81",
    "#575329", "#00FECF", "#B05B6F", "#8CD0FF", "#3B9700", "#04F757", "#C8A1A1", "#1E6E00",
    "#7900D7", "#A77500", "#6367A9", "#A05837", "#6B002C", "#772600", "#D790FF", "#9B9700",
    "#549E79", "#FFF69F", "#201625", "#72418F", "#BC23FF", "#99ADC0", "#3A2465", "#922329",
    "#5B4534", "#FDE8DC", "#404E55", "#0089A3", "#CB7E98", "#A4E804", "#324E72", "#6A3A4C",
    "#83AB58", "#001C1E", "#D1F7CE", "#004B28", "#C8D0F6", "#A3A489", "#806C66", "#222800",
    "#BF5650", "#E83000", "#66796D", "#DA007C", "#FF1A59", "#8ADBB4", "#1E0200", "#5B4E51",
    "#C895C5", "#320033", "#FF6832", "#66E1D3", "#CFCDAC", "#D0AC94", "#7ED379", "#012C58"
>>

\* seq[:n], a Python slice: a negative n counts from the end, and the stop is
\* clamped to the sequence.
SliceTo(seq, n) ==
    IF n >= 0 THEN SubSeq(seq, 1, Min(n, Len(seq)))
    ELSE SubSeq(seq, 1, Max(Len(seq) + n, 0))

\* "Can not generate more than {} distinct colors.".format(str(len(colors))):
\* the numbers the message carries.
TooManyColorsDetail == <<Len(colors)>>

\* Variants of the generator: without the length check; the slice one off.
UncheckedColors(n) == [raised |-> "", ret |-> SliceTo(colors, n), detail |-> <<>>]
ShiftedColors(n) ==
    IF n > Len(colors)
    THEN [raised |-> "Exception", ret |-> <<>>, detail |-> TooManyColorsDetail]
    ELSE [raised |-> "", ret |-> SubSeq(colors, 2, Min(n + 1, Len(colors))),
          detail |-> <<>>]
generate_n_visually_distinct_colors(n) ==
    IF n > Len(colors)
    THEN [raised |-> "Exception", ret |-> <<>>, detail |-> TooManyColorsDetail]
    ELSE [raised |-> "", ret |-> SliceTo(colors, n), detail |-> <<>>]

ColorCounts ==
    (-1 .. MaxSmallN) \cup ((Len(colors) - PaletteSlack) .. (Len(colors) + PaletteSlack))

GenerateColors(n) ==
    /\ colorCall' = [op |-> "generate_n_visually_distinct_colors", n |-> n,
                     result |-> generate_n_visually_distinct_colors(n)]
    /\ prevColorCall' = colorCall
    /\ UNCHANGED <<zoomCall, maps, mapCall>>


ColorsCalled == colorCall.op = "generate_n_visually_distinct_colors"
ColorsCalledTwice == ColorsCalled /\ prevColorCall.op = "generate_n_visually_distinct_colors"
IsPrefix(s, t) == Len(s) <= Len(t) /\ \A i \in 1 .. Len(s) : s[i] = t[i]

\* C2: for 0 <= n <= 128 the generator returns exactly the first n palette
\* entries in palette order; two calls with the same n return identical
\* sequences and the result for m is a prefix of the result for any n >= m.
C2_PalettePrefix ==
    /\ (ColorsCalled /\ colorCall.n \in 0 .. 128) =>
          /\ colorCall.result.raised = ""
          /\ Len(colorCall.result.ret) = colorCall.n
          /\ \A i \in 1 .. colorCall.n : colorCall.result.ret[i] = colors[i]
    /\ (ColorsCalledTwice /\ colorCall.n \in 0 .. 128 /\ prevColorCall.n \in 0 .. 128) =>
          /\ prevColorCall.n = colorCall.n =>
                prevColorCall.result.ret = colorCall.result.ret
          /\ prevColorCall.n <= colorCall.n =>
                IsPrefix(prevColorCall.result.ret, colorCall.result.ret)

\* The whole palette was returned right after a shorter, non-empty prefix.
C2_Witness ==
    /\ ColorsCalledTwice
    /\ prevColorCall.n = 2
    /\ colorCall.n = 128
    /\ colorCall.result.ret = colors
    /\ prevColorCall.result.ret = <<"#000000", "#FFFF00">>

\* C3 (as stated): for n > 128 the generator returns no colours and fails with
\* an error whose detail carries both the requested count n and the maximum
\* count 128.
C3_DetailCarriesBoth ==
    (ColorsCalled /\ colorCall.n > 128) =>
        /\ colorCall.result.raised # ""
        /\ colorCall.result.ret = <<>>
        /\ \E i \in DOMAIN colorCall.result.detail :
              colorCall.result.detail[i] = colorCall.n
        /\ \E i \in DOMAIN colorCall.result.detail :
              colorCall.result.detail[i] = 128

\* C3 (amended): for n > 128 the generator returns no colours and fails with
\* an Exception whose detail carries the maximum count 128 and nothing else:
\* the requested count n is not in it.
C3_DetailCarriesMax ==
    (ColorsCalled /\ colorCall.n > 128) =>
        /\ colorCall.result.raised = "Exception"
        /\ colorCall.result.ret = <<>>
        /\ colorCall.result.detail = <<128>>

\* A call with 129, one more than the palette holds, failed.
C3_Witness ==
    /\ ColorsCalled
    /\ colorCall.n = 129
    /\ colorCall.result.raised = "Exception"


----------------------------------------------------------------------------
\* folium objects

None == <<>>

BaseLayers ==
    [kind |-> "FeatureGroup", name |-> "ESRI World Imagery", overlay |-> FALSE,
     tiles |-> <<"World_Imagery", "toner-labels", "toner-lines">>]
\* opacity in percent
PolyLine(locations, color, opacity) ==
    [kind |-> "PolyLine", locations |-> locations, color |-> color,
     opacity |-> opacity]
LatLngPopup == [kind |-> "LatLngPopup"]
CircleMarker(location, popup, color) ==
    [kind |-> "CircleMarker", location |-> location, radius |-> 5,
     popup |-> popup, color |-> color, fill |-> TRUE, fill_color |-> color]
\* folium.Map(tiles=None, location=..., zoom_start=...) with its FeatureGroup
NewMap(center, zoom_level) ==
    [location |-> center, zoom_start |-> zoom_level, children |-> <<BaseLayers>>]
AddChildren(m, cs) == [m EXCEPT !.children = @ \o cs]

Children(m, kind) == {i \in 1 .. Len(m.children) : m.children[i].kind = kind}
RECURSIVE TotalPopups(_)
TotalPopups(heap) ==
    IF heap = <<>> THEN 0
    ELSE Cardinality(Children(heap[Len(heap)], "LatLngPopup"))
         + TotalPopups(SubSeq(heap, 1, Len(heap) - 1))

----------------------------------------------------------------------------
\* display_map

\* np.mean of a 2-tuple, as the rational <<sum, count>>
Mean2(pair) == <<pair[1] + pair[2], 2>>

\* np.arange(start, stop, step) for step > 0
Arange(start, stop, step) ==
    LET n == IF stop > start THEN (stop - start + step - 1) \div step ELSE 0
    IN  [i \in 1 .. n |-> start + (i - 1) * step]

\* Variant: max in place of min.
MaxDisplayMapZoomLevel(latitude, longitude) ==
    LET margin == <<-1, 2>>
        zoom_bias == 0
        lat == _degree_to_zoom_level(latitude[1], latitude[2], margin)
        lon == _degree_to_zoom_level(longitude[1], longitude[2], margin)
    IN  IF lat.raised # "" THEN lat
        ELSE IF lon.raised # "" THEN lon
        ELSE [raised |-> "",
              ret |-> <<Max(lat.ret[1] + zoom_bias, lon.ret[1] + zoom_bias)>>]
\* margin = -0.5, zoom_bias = 0; an exception of the estimator propagates
DisplayMapZoomLevel(latitude, longitude) ==
    LET margin == <<-1, 2>>
        zoom_bias == 0
        lat == _degree_to_zoom_level(latitude[1], latitude[2], margin)
        lon == _degree_to_zoom_level(longitude[1], longitude[2], margin)
    IN  IF lat.raised # "" THEN lat
        ELSE IF lon.raised # "" THEN lon
        ELSE [raised |-> "",
              ret |-> <<Min(lat.ret[1] + zoom_bias, lon.ret[1] + zoom_bias)>>]

ResolutionGrid(latitude, longitude, resolution) ==
    LET lats == Arange(latitude[1], latitude[2], Abs(resolution[1]))
        lons == Arange(longitude[1], longitude[2], Abs(resolution[2]))
        vertical_grid ==
            [i \in 1 .. Len(lons) |->
                PolyLine(<<<<latitude[1], lons[i]>>, <<latitude[2], lons[i]>>>>,
                         "white", 30)]
        horizontal_grid ==
            [i \in 1 .. Len(lats) |->
                PolyLine(<<<<lats[i], longitude[1]>>, <<lats[i], longitude[2]>>>>,
                         "white", 30)]
    IN  vertical_grid \o horizontal_grid

BoundingBox(latitude, longitude) ==
    PolyLine(<<<<latitude[1], longitude[1]>>, <<latitude[1], longitude[2]>>,
               <<latitude[2], longitude[2]>>, <<latitude[2], longitude[1]>>,
               <<latitude[1], longitude[1]>>>>, "red", 80)

\* The outcome of a composer: the exception raised ("" for none) and the map
\* objects it constructed (<<>> or <<map>>).
\* Variant: the bounds are asserted after folium.Map is constructed.
LateAssertDisplayMap(latitude, longitude, resolution) ==
    IF latitude = None \/ longitude = None
    THEN [raised |-> "AssertionError", made |-> <<NewMap(<<>>, 0)>>]
    ELSE LET zoom == DisplayMapZoomLevel(latitude, longitude)
         IN  IF zoom.raised # "" THEN [raised |-> zoom.raised, made |-> <<>>]
             ELSE [raised |-> "",
                   made |-> <<AddChildren(
                       NewMap(<<Mean2(latitude), Mean2(longitude)>>, zoom.ret[1]),
                       (IF resolution # None
                        THEN ResolutionGrid(latitude, longitude, resolution)
                        ELSE <<>>)
                       \o <<BoundingBox(latitude, longitude), LatLngPopup>>)>>]
display_map(latitude, longitude, resolution) ==
    IF latitude = None THEN [raised |-> "AssertionError", made |-> <<>>]
    ELSE IF longitude = None THEN [raised |-> "AssertionError", made |-> <<>>]
    ELSE LET zoom == DisplayMapZoomLevel(latitude, longitude)
         IN  IF zoom.raised # "" THEN [raised |-> zoom.raised, made |-> <<>>]
             ELSE [raised |-> "",
                   made |-> <<AddChildren(
                       NewMap(<<Mean2(latitude), Mean2(longitude)>>, zoom.ret[1]),
                       (IF resolution # None
                        THEN ResolutionGrid(latitude, longitude, resolution)
                        ELSE <<>>)
                       \o <<BoundingBox(latitude, longitude), LatLngPopup>>)>>]

\* A call of display_map: the map it constructs joins the heap, and the call
\* returns a reference to it (its index in maps).
DisplayMap(latitude, longitude, resolution) ==
    /\ TotalPopups(maps) < MaxCalls
    /\ Len(maps) < MaxMaps
    /\ \E r \in {display_map(latitude, longitude, resolution)} :
        /\ maps' = maps \o r.made
        /\ mapCall' = [op |-> "display_map", latitude |-> latitude,
                       longitude |-> longitude, resolution |-> resolution,
                       result |-> [raised |-> r.raised,
                                   ret |-> IF r.raised = "" THEN <<Len(maps')>>
                                           ELSE <<>>]]
        /\ UNCHANGED <<zoomCall, colorCall, prevColorCall>>

Deg(d) == d * UnitsPerDegree
\* The arguments display_map is called with; a resolution is never 0 here.
Latitudes == {None, <<0, Deg(10)>>, <<Deg(10), 0>>, <<Deg(-1), Deg(1)>>}
Longitudes == {None, <<0, Deg(40)>>, <<Deg(40), 0>>, <<Deg(7), Deg(7)>>}
Resolutions == {None, <<Deg(4), Deg(-15)>>}
\* One bounds pair, to be given in either order.
SwappedBounds == <<0, Deg(10)>>



DisplayMapCalled == mapCall.op = "display_map"
DisplayMapReturned == DisplayMapCalled /\ mapCall.result.raised = ""
Reversed(pair) == <<pair[2], pair[1]>>

\* C5: display_map called without latitude, or without longitude, fails with
\* an assertion error before any map object is constructed: the call creates
\* no map, layer, grid line or rectangle and returns nothing.
C5_MissingArgument ==
    [][(/\ mapCall'.op = "display_map"
        /\ (mapCall'.latitude = None \/ mapCall'.longitude = None))
       => /\ mapCall'.result = [raised |-> "AssertionError", ret |-> <<>>]
          /\ maps' = maps]_vars

\* A call with a latitude and no longitude failed, with a map on the heap.
C5_Witness ==
    /\ DisplayMapCalled
    /\ mapCall.latitude # None
    /\ mapCall.longitude = None
    /\ mapCall.result.raised = "AssertionError"
    /\ Len(maps) = 1

\* z is the zoom level of one axis at margin -0.5: 18 for equal bounds, else
\* log2(360 / (|high - low| / 2)) truncated toward zero.
IsAxisZoom(z, pair) ==
    IF pair[1] = pair[2] THEN z = 18
    ELSE IsTruncLog2(z, 720 * UnitsPerDegree, Abs(pair[1] - pair[2]))

\* C6: the zoom level display_map gives the map is the minimum of the
\* estimator's results on the latitude pair and on the longitude pair, each
\* with margin -0.5 and bias 0; it is never greater than either axis's level.
C6_ZoomIsMinimum ==
    DisplayMapCalled =>
        /\ (mapCall.latitude # None /\ mapCall.longitude # None) =>
              mapCall.result.raised = ""
        /\ DisplayMapReturned =>
              LET zoom == maps[mapCall.result.ret[1]].zoom_start
                  lat == _degree_to_zoom_level(mapCall.latitude[1],
                                               mapCall.latitude[2], <<-1, 2>>)
                  lon == _degree_to_zoom_level(mapCall.longitude[1],
                                               mapCall.longitude[2], <<-1, 2>>)
              IN  /\ lat.raised = "" /\ lon.raised = ""
                  /\ zoom = Min(lat.ret[1], lon.ret[1])
                  /\ zoom <= lat.ret[1] /\ zoom <= lon.ret[1]
                  /\ IsAxisZoom(lat.ret[1], mapCall.latitude)
                  /\ IsAxisZoom(lon.ret[1], mapCall.longitude)

\* A map whose longitude axis decides: latitude (-1, 1) alone gives 8,
\* longitude (0, 40) gives 4, and the map has 4.
C6_Witness ==
    /\ DisplayMapReturned
    /\ mapCall.latitude = <<Deg(-1), Deg(1)>>
    /\ mapCall.longitude = <<0, Deg(40)>>
    /\ maps[mapCall.result.ret[1]].zoom_start = 4
    /\ IsAxisZoom(8, mapCall.latitude)

\* C9: the estimator gives the same result for (low, high) as for (high,
\* low), whatever the margin, and display_map's zoom level does not depend
\* on the order in which either bounds pair is given.
C9_OrderOfBounds ==
    /\ ZoomCalled =>
          zoomCall.result =
              _degree_to_zoom_level(zoomCall.l2, zoomCall.l1, zoomCall.margin)
    /\ DisplayMapReturned =>
          LET zoom == [raised |-> "",
                       ret |-> <<maps[mapCall.result.ret[1]].zoom_start>>]
              lat == mapCall.latitude
              lon == mapCall.longitude
          IN  /\ zoom = DisplayMapZoomLevel(Reversed(lat), lon)
              /\ zoom = DisplayMapZoomLevel(lat, Reversed(lon))
              /\ zoom = DisplayMapZoomLevel(Reversed(lat), Reversed(lon))

\* The estimator returned for low < high, and display_map made a map from a
\* latitude pair given as (max, min).
C9_Witness ==
    /\ ZoomReturned
    /\ zoomCall.l1 < zoomCall.l2
    /\ DisplayMapReturned
    /\ mapCall.latitude[1] > mapCall.latitude[2]

----------------------------------------------------------------------------
\* display_grouped_pandas_rows_as_pins

\* A data frame is its sequence of rows [Latitude, Longitude, group]; group
\* is the column group_name names.
RECURSIVE SeqSum(_)
SeqSum(s) ==
    IF s = <<>> THEN 0
    ELSE IF Len(s) = 1 THEN s[1]
    ELSE LET h == Len(s) \div 2
         IN  SeqSum(SubSeq(s, 1, h)) + SeqSum(SubSeq(s, h + 1, Len(s)))
SeqMin(s) == CHOOSE x \in {s[i] : i \in 1 .. Len(s)} :
                 \A i \in 1 .. Len(s) : x <= s[i]
SeqMax(s) == CHOOSE x \in {s[i] : i \in 1 .. Len(s)} :
                 \A i \in 1 .. Len(s) : x >= s[i]

Latitude(data_frame) == [i \in 1 .. Len(data_frame) |-> data_frame[i].Latitude]
Longitude(data_frame) == [i \in 1 .. Len(data_frame) |-> data_frame[i].Longitude]
\* Series.mean(), as the rational <<sum, count>>: <<0, 0>> (NaN) when empty
ColumnMean(column) == <<SeqSum(column), Len(column)>>
\* Series.min() and Series.max(): <<value>>, or <<>> (NaN) for an empty column
ColumnMin(column) == IF column = <<>> THEN <<>> ELSE <<SeqMin(column)>>
ColumnMax(column) == IF column = <<>> THEN <<>> ELSE <<SeqMax(column)>>

\* The estimator on floats that may be NaN: degree is then NaN, which is
\* != 0, math.log gives NaN and int(NaN) raises ValueError.
DegreeToZoomLevelOfFloats(l1, l2, margin) ==
    IF l1 = <<>> \/ l2 = <<>>
    THEN [raised |-> "ValueError", ret |-> <<>>]
    ELSE _degree_to_zoom_level(l1[1], l2[1], margin)

\* Variant: np.unique in place of pd.unique, the distinct values ascending.
SortedUnique(s) ==
    LET vals == {s[i] : i \in 1 .. Len(s)}
    IN  [k \in 1 .. Cardinality(vals) |->
            CHOOSE v \in vals : Cardinality({w \in vals : w < v}) = k - 1]
\* pd.unique: the distinct values in first-seen order (by halves: the
\* values of the second half that the first half does not hold follow it)
RECURSIVE Unique(_)
Unique(s) ==
    IF Len(s) <= 1 THEN s
    ELSE LET h == Len(s) \div 2
             first == Unique(SubSeq(s, 1, h))
             second == Unique(SubSeq(s, h + 1, Len(s)))
             IsNew(x) == \A j \in 1 .. Len(first) : first[j] # x
         IN  first \o SelectSeq(second, IsNew)

\* {k: v for k, v in zip(keys, values)}: zip stops at the shorter sequence
\* and a later pair replaces an earlier one with the same key.
LastIndex(s, x, n) ==
    CHOOSE i \in 1 .. n : s[i] = x /\ \A j \in (i + 1) .. n : s[j] # x
DictOfZip(keys, values) ==
    LET n == Min(Len(keys), Len(values))
    IN  [k \in {keys[i] : i \in 1 .. n} |-> values[LastIndex(keys, k, n)]]

Markers(data_frame, color_of) ==
    [i \in 1 .. Len(data_frame) |->
        CircleMarker(<<data_frame[i].Latitude, data_frame[i].Longitude>>,
                     data_frame[i].group, color_of[data_frame[i].group])]

\* The outcome of the composer on the heap: folium_map is a reference into
\* heap, or 0 for None.  Both exceptions are raised before any object is
\* constructed or changed.
display_grouped_pandas_rows_as_pins(data_frame, folium_map, heap) ==
    LET center == <<ColumnMean(Latitude(data_frame)), ColumnMean(Longitude(data_frame))>>
        zoom == DegreeToZoomLevelOfFloats(ColumnMin(Latitude(data_frame)),
                                          ColumnMax(Latitude(data_frame)), <<0, 1>>)
        labels == Unique([i \in 1 .. Len(data_frame) |-> data_frame[i].group])
        pallete == generate_n_visually_distinct_colors(Len(labels))
        color_of == DictOfZip(labels, pallete.ret)
        m == IF folium_map = 0 THEN Len(heap) + 1 ELSE folium_map
        before == IF folium_map = 0
                  THEN Append(heap, NewMap(center, zoom.ret[1]))
                  ELSE heap
    IN  IF zoom.raised # ""
        THEN [raised |-> zoom.raised, labels |-> <<>>, colors |-> <<>>,
              heap |-> heap, ret |-> <<>>]
        ELSE IF pallete.raised # ""
        THEN [raised |-> pallete.raised, labels |-> labels, colors |-> <<>>,
              heap |-> heap, ret |-> <<>>]
        ELSE [raised |-> "", labels |-> labels, colors |-> color_of,
              heap |-> [before EXCEPT ![m] =
                           AddChildren(@, Markers(data_frame, color_of)
                                          \o <<LatLngPopup>>)],
              ret |-> <<m>>]

DisplayGroupedPins(data_frame, folium_map) ==
    /\ TotalPopups(maps) < MaxCalls
    /\ folium_map = 0 => Len(maps) < MaxMaps
    /\ \E r \in {display_grouped_pandas_rows_as_pins(data_frame, folium_map, maps)} :
        /\ maps' = r.heap
        /\ mapCall' = [op |-> "display_grouped_pandas_rows_as_pins",
                       data_frame |-> data_frame, folium_map |-> folium_map,
                       labels |-> r.labels, colors |-> r.colors,
                       result |-> [raised |-> r.raised, ret |-> r.ret]]
        /\ UNCHANGED <<zoomCall, colorCall, prevColorCall>>

\* The data frames the composer is called with: the empty frame, and n rows
\* whose group values cycle through k labels, last label first, for n = k
\* and n = 2k - 1.
FrameOf(groups) ==
    [i \in 1 .. Len(groups) |->
        [Latitude |-> i * (UnitsPerDegree \div 4),
         Longitude |-> -i * (UnitsPerDegree \div 2),
         group |-> groups[i]]]
CycleLabels(k, n) == [i \in 1 .. n |-> k - ((i - 1) % k)]
Frames ==
    {FrameOf(<<>>)}
    \cup UNION {{FrameOf(CycleLabels(k, n)) : n \in {k, 2 * k - 1}} :
                   k \in 1 .. MaxLabels}
    \cup {FrameOf(CycleLabels(k, k)) : k \in Len(colors) .. Len(colors) + 1}


PinsCalled == mapCall.op = "display_grouped_pandas_rows_as_pins"
PinsReturned == PinsCalled /\ mapCall.result.raised = ""
Groups(df) == {df[i].group : i \in 1 .. Len(df)}
\* The row where row i's group value is first seen, and how many distinct
\* group values have been seen up to that row.
FirstSeen(df, i) ==
    CHOOSE j \in 1 .. i : df[j].group = df[i].group
                          /\ \A h \in 1 .. (j - 1) : df[h].group # df[i].group
SeenRank(df, i) == Cardinality({df[j].group : j \in 1 .. FirstSeen(df, i)})
MarkerCount(m) == Cardinality(Children(m, "CircleMarker"))

\* C4: for a dataset with at most 128 distinct group values the
\* label-to-colour map has exactly one entry per distinct group value, the
\* k-th distinct value in first-seen row order has palette colour index k-1,
\* and the call produces exactly one marker per row, stroke and fill in the
\* colour of the row's group value.  (A dataset with no rows has no entry and
\* no marker: the call raises before it builds either.)
C4_ColoursByFirstSeen ==
    PinsCalled =>
        \E df \in {mapCall.data_frame} :
          Cardinality(Groups(df)) <= 128 =>
            IF Len(df) = 0
            THEN mapCall.colors = <<>> /\ mapCall.result.ret = <<>>
            ELSE
              /\ mapCall.result.raised = ""
              /\ DOMAIN mapCall.colors = Groups(df)
              /\ \A i \in 1 .. Len(df) :
                    mapCall.colors[df[i].group] = colors[SeenRank(df, i)]
              /\ \E ch \in {maps[mapCall.result.ret[1]].children} :
                    LET base == Len(ch) - 1 - Len(df)
                    IN  /\ base >= 1
                        /\ ch[base].kind # "CircleMarker"
                        /\ ch[Len(ch)].kind = "LatLngPopup"
                        /\ \A i \in 1 .. Len(df) :
                              /\ ch[base + i].kind = "CircleMarker"
                              /\ ch[base + i].location =
                                    <<df[i].Latitude, df[i].Longitude>>
                              /\ ch[base + i].popup = df[i].group
                              /\ ch[base + i].color = mapCall.colors[df[i].group]
                              /\ ch[base + i].fill_color = mapCall.colors[df[i].group]

\* Rows with group values [B, A, B] were drawn: two entries, B at palette
\* index 0 and A at index 1, and three markers.
C4_Witness ==
    /\ PinsReturned
    /\ Len(mapCall.data_frame) = 3
    /\ mapCall.data_frame[1].group = 2
    /\ mapCall.data_frame[2].group = 1
    /\ mapCall.data_frame[3].group = 2
    /\ DOMAIN mapCall.colors = {1, 2}
    /\ mapCall.colors[2] = "#000000"
    /\ mapCall.colors[1] = "#FFFF00"
    /\ MarkerCount(maps[mapCall.result.ret[1]]) >= 3

\* The supplied map after a call that returned: the same object, its centre,
\* zoom and earlier children as they were, one more marker per row, every
\* other map untouched.
SuppliedMapKept(id, df) ==
    /\ Len(maps') = Len(maps)
    /\ \A j \in 1 .. Len(maps) : j # id => maps'[j] = maps[j]
    /\ maps'[id].location = maps[id].location
    /\ maps'[id].zoom_start = maps[id].zoom_start
    /\ IsPrefix(maps[id].children, maps'[id].children)
    /\ MarkerCount(maps'[id]) = MarkerCount(maps[id]) + Len(df)

\* C10 (as stated): every call that is passed an existing map returns that
\* same map, with its centre, zoom, base layers and earlier markers as they
\* were and one more marker per row; the one failure is OutOfRange (more than
\* 128 distinct group values), and it adds nothing to the map.
C10_SuppliedMapReturned ==
    [][(mapCall'.op = "display_grouped_pandas_rows_as_pins"
        /\ mapCall'.folium_map # 0)
       => \E df \in {mapCall'.data_frame} :
            IF Cardinality(Groups(df)) > 128
            THEN mapCall'.result.raised = "Exception" /\ maps' = maps
            ELSE /\ mapCall'.result =
                       [raised |-> "", ret |-> <<mapCall'.folium_map>>]
                 /\ SuppliedMapKept(mapCall'.folium_map, df)]_vars

\* What holds of every call that is passed an existing map: one that returns
\* returns that map, kept as above, and one that raises (Exception for more
\* than 128 distinct group values, ValueError for no rows) changes no map.
PinsFrameEffect ==
    [][(mapCall'.op = "display_grouped_pandas_rows_as_pins"
        /\ mapCall'.folium_map # 0)
       => \E df \in {mapCall'.data_frame} :
            IF mapCall'.result.raised # ""
            THEN /\ maps' = maps
                 /\ mapCall'.result.ret = <<>>
                 /\ mapCall'.result.raised = "Exception" <=>
                       Cardinality(Groups(df)) > 128
                 /\ mapCall'.result.raised = "ValueError" <=> Len(df) = 0
            ELSE /\ mapCall'.result.ret = <<mapCall'.folium_map>>
                 /\ SuppliedMapKept(mapCall'.folium_map, df)]_vars

----------------------------------------------------------------------------
Init ==
    /\ zoomCall = NoCall
    /\ colorCall = NoCall
    /\ prevColorCall = NoCall
    /\ maps = <<>>
    /\ mapCall = NoCall

NextZoom ==
    \/ \E l1 \in ZoomBounds, l2 \in ZoomBounds, i \in DOMAIN ZoomMargins :
          DegreeToZoomLevel(l1, l2, ZoomMargins[i])
    \/ \E i \in 1 .. 2 :
          DisplayMap(<<SwappedBounds[i], SwappedBounds[3 - i]>>,
                     <<4 * SwappedBounds[3 - i], 4 * SwappedBounds[i]>>, None)
SpecZoom == Init /\ [][NextZoom]_vars

NextMap == \E latitude \in Latitudes, longitude \in Longitudes,
              resolution \in Resolutions :
               DisplayMap(latitude, longitude, resolution)
SpecMap == Init /\ [][NextMap]_vars

NextPins ==
    \/ DisplayMap(<<0, Deg(10)>>, <<0, Deg(40)>>, None)
    \/ \E data_frame \in Frames, folium_map \in 0 .. Len(maps) :
          DisplayGroupedPins(data_frame, folium_map)
SpecPins == Init /\ [][NextPins]_vars

NextColors == \E n \in ColorCounts : GenerateColors(n)
SpecColors == Init /\ [][NextColors]_vars

====
